---- MODULE Spec2Model ----
(***************************************************************************)
(* Model of the vocal-pitch scoring engine of                              *)
(* frontend/components/game/PerfectScoreGame.tsx (TOPONNN/KERO).           *)
(*                                                                         *)
(* Units.  Times are integers counting half seconds (0.5 s), so that the   *)
(* 0.5 s popup duration and the 0.5 s / 2.0 s / 3.0 s line tolerances are  *)
(* whole numbers.  A positive frequency f Hz is represented by its pitch   *)
(* in cents above MIDI note 0, 1200 * log2(f / midiToFreq(0)); 440 Hz is   *)
(* 6900.  The values 0 and -1 stand for the numbers 0 and -1 themselves    *)
(* (the initial latestPitchRef frequency and autoCorrelate's "no pitch").  *)
(* With this encoding 1200 * log2(sample / midiToFreq(midi)) is            *)
(* sample - 100 * midi and freqToMidi(f) is f / 100.                       *)
(***************************************************************************)
EXTENDS Integers, Sequences, FiniteSets, TLC

VARIABLES
    currentSong,        \* redux state.game.currentSong: [audioUrl, lyrics]
    currentTime,        \* audioRef.current.currentTime
    lastTime,           \* lastTimeRef.current
    currentLyricIndex,  \* React state currentLyricIndex
    isMicOn,            \* React state isMicOn (mirrored by isMicOnRef)
    analyser,           \* analyserRef.current / audioContextRef.current set
    mediaStream,        \* mediaStreamRef.current set
    pendingStarts,      \* getUserMedia promises of startMicrophone in flight
    latestPitch,        \* latestPitchRef.current: [frequency]; its time field is never read
    userPitchTrail,     \* userPitchTrailRef.current: sequence of [time, midi]
    scoredResults,      \* scoredResultsRef.current: key -> [result, scoredAt]
    pitchSamples,       \* pitchSamplesRef.current: key -> sequence of frequencies
    score,              \* scoreRef.current
    combo,              \* comboRef.current
    scorePopups,        \* React state scorePopups: sequence of [type, points]
    judgementPopups,    \* judgementPopupsRef.current: sequence of [text, time]
    judged,             \* history: the scorings made by the latest step, in order
    scoreCalls,         \* history: key -> number of scorings since the last restart
    micInWindow,        \* history: keys sampled with the microphone on since the last restart
    heard,              \* history: a pitch was estimated since the mount or the last restart
    probe               \* the pure function under test, its input and its result

vars == <<currentSong, currentTime, lastTime, currentLyricIndex, isMicOn, analyser,
          mediaStream, pendingStarts, latestPitch, userPitchTrail, scoredResults,
          pitchSamples, score, combo, scorePopups, judgementPopups, judged,
          scoreCalls, micInWindow, heard, probe>>

----------------------------------------------------------------------------
(* Bounds of the model. *)

\* Playback positions are observed Step half seconds apart.  Step exceeds the
\* trail window, so the trail of Spec holds entries of the current position only.
Step == 9
\* Most samples kept for one note, most trail entries, most getUserMedia calls
\* in flight.
MaxSamples == 2
MaxTrail == 1
MaxPending == 1
\* SpecScoreWord: the largest combo and the longest sample list put to ScoreWord.
MaxCombo == 12
MaxProbeSamples == 3
\* SpecIndexer: the most lines of a timeline and the latest line boundary.
MaxLines == 2
MaxLineTime == 10
\* SpecEstimator: the longest buffer put to autoCorrelate.
MaxBuffer == 4
\* SpecSine: the number of samples of a sine wave put to autoCorrelate.
SineWindow == 256
\* SpecSeek: most trail entries.
MaxSeekTrail == 2
\* SpecMic: most getUserMedia calls in flight.
MaxStarts == 2

----------------------------------------------------------------------------
(* Program constants. *)

USER_TRAIL_SECONDS == 4
NoPitch == -1
POSITIVE_INFINITY == 1000000
\* Amplitudes are integers counting 0.005, so threshold = 0.2 is 40; the
\* analyser's fftSize, 2048 in the program, is 4 samples in the model.
threshold == 40
fftSize == 4

----------------------------------------------------------------------------
(* Timelines. *)

Word(s, e, kind, m) == [startTime |-> s, endTime |-> e, midiKind |-> kind, midi |-> m]
Line(s, e, ws) == [startTime |-> s, endTime |-> e, words |-> ws]

\* A song is its audio and its lyrics; step is the distance between the
\* playback positions at which the model observes it and trail the most
\* entries the model lets the pitch trail hold while it plays.
\* One line with two notes whose windows share the position Step, and a word
\* without midi; the audio lasts one position longer than the last note.
SongA ==
    [audioUrl |-> TRUE,
     duration |-> 3 * Step,
     step |-> Step,
     trail |-> MaxTrail,
     lyrics |-> << Line(0, 2 * Step,
                        << Word(0, Step, "finite", 69),
                           Word(Step, 2 * Step, "finite", 69),
                           Word(2 * Step, 2 * Step, "undefined", 0) >>) >>]

Songs == {SongA}

\* Another song: one line with one note, which has the key of SongA's first
\* note and a target one semitone higher.
SongB ==
    [audioUrl |-> TRUE,
     duration |-> 2 * Step,
     step |-> Step,
     trail |-> MaxTrail,
     lyrics |-> << Line(0, Step, << Word(0, Step, "finite", 70) >>) >>]

\* One line with a note whose midi is NaN, a note whose midi is Infinity and
\* which ends when it starts, and a note that ends before it starts.
SongMalformed ==
    [audioUrl |-> TRUE,
     duration |-> 2 * Step,
     step |-> Step,
     trail |-> MaxTrail,
     lyrics |-> << Line(0, Step,
                        << Word(0, Step, "NaN", 0),
                           Word(0, 0, "Infinity", 0),
                           Word(Step, 0, "finite", 69) >>) >>]

\* No lyrics; every half second of the audio, which lasts one second longer
\* than the trail window, is a playback position.
SongTrail ==
    [audioUrl |-> TRUE,
     duration |-> 2 * USER_TRAIL_SECONDS + 2,
     step |-> 1,
     trail |-> MaxTrail,
     lyrics |-> <<>>]

\* One line with two notes that both end before the second and last playback
\* position; the first note's window holds the position 0, the second's none.
SongLive ==
    [audioUrl |-> TRUE,
     duration |-> Step,
     step |-> Step,
     trail |-> MaxTrail,
     lyrics |-> << Line(0, Step - 1,
                        << Word(0, Step \div 2, "finite", 69),
                           Word(Step \div 2 + 1, Step - 1, "finite", 69) >>) >>]

\* No lyrics; three playback positions one second apart, all within one trail
\* window, and room for MaxSeekTrail trail entries.
SongSeek ==
    [audioUrl |-> TRUE,
     duration |-> 4,
     step |-> 2,
     trail |-> MaxSeekTrail,
     lyrics |-> <<>>]

----------------------------------------------------------------------------
(* Pure helpers. *)

Abs(x) == IF x < 0 THEN -x ELSE x
Min(a, b) == IF a < b THEN a ELSE b

\* Math.round on a non-negative quotient num / den: halves round up.
RoundDiv(num, den) == (2 * num + den) \div (2 * den)

\* midiToFreq(midi), in cents above MIDI 0.
midiToFreq(midi) == 100 * midi

\* Math.round(freqToMidi(frequency)).
quantizedMidi(frequency) == RoundDiv(frequency, 100)

\* Map operations on functions with a finite domain of keys.
MapHas(m, k) == k \in DOMAIN m
MapSet(m, k, v) == [x \in DOMAIN m \cup {k} |-> IF x = k THEN v ELSE m[x]]
MapDelete(m, k) == [x \in DOMAIN m \ {k} |-> m[x]]
EmptyMap == [x \in {} |-> 0]

\* prev.slice(-3)
LastThree(s) == IF Len(s) <= 3 THEN s ELSE SubSeq(s, Len(s) - 2, Len(s))

\* As FilterSeq, but nothing is dropped.
FilterSeq_KeepsAll(s, now, maxAge) == s

RECURSIVE FilterSeq(_, _, _)
\* s.filter(point => now - point.time <= maxAge)
FilterSeq(s, now, maxAge) ==
    IF s = <<>> THEN <<>>
    ELSE LET rest == FilterSeq(Tail(s), now, maxAge)
         IN IF now - Head(s).time <= maxAge THEN <<Head(s)>> \o rest ELSE rest

----------------------------------------------------------------------------
(* words: the notes of the timeline, in line order then word order. *)

RECURSIVE WordsOfLine(_, _, _)
WordsOfLine(line, lineIndex, n) ==
    IF n = 0 THEN <<>>
    ELSE LET w == line.words[n]
             rest == WordsOfLine(line, lineIndex, n - 1)
         IN IF w.midiKind # "undefined"
            THEN Append(rest, [startTime |-> w.startTime, endTime |-> w.endTime,
                               midiKind |-> w.midiKind, midi |-> w.midi,
                               lineIndex |-> lineIndex, wordIndex |-> n - 1])
            ELSE rest

RECURSIVE WordsUpTo(_, _)
WordsUpTo(ls, n) ==
    IF n = 0 THEN <<>>
    ELSE WordsUpTo(ls, n - 1) \o WordsOfLine(ls[n], n - 1, Len(ls[n].words))

WordsOf(song) == WordsUpTo(song.lyrics, Len(song.lyrics))

words == WordsOf(currentSong)

\* `${word.lineIndex}-${word.wordIndex}`: one key per (line, position) pair.
Key(word) == <<word.lineIndex, word.wordIndex>>

\* The playback positions of the current song.
Times == {t \in 0..currentSong.duration : t % currentSong.step = 0}

\* As InWindow, but a note is closed at its end time.
InWindow_EndExclusive(word, now) == now >= word.startTime /\ now < word.endTime

InWindow(word, now) == now >= word.startTime /\ now <= word.endTime

----------------------------------------------------------------------------
(* findCurrentLyricIndex; 0.5 s, 3.0 s and 2.0 s are 1, 6 and 4 half seconds. *)

\* As GapIndex, but the line that ended stays active for 1.5 s.
GapIndex_LongGrace(line, nextLine, time, i) ==
    IF time <= line.endTime + 3 THEN i - 1
    ELSE IF nextLine.startTime - line.endTime <= 6 THEN i
    ELSE -1

\* Lines 114-117: time lies between line, the i-th line counting from 1, and
\* nextLine.
GapIndex(line, nextLine, time, i) ==
    IF time <= line.endTime + 1 THEN i - 1
    ELSE IF nextLine.startTime - line.endTime <= 6 THEN i
    ELSE -1

RECURSIVE LyricIndexFrom(_, _, _)
\* The for loop of lines 104-124, from the i-th line on.
LyricIndexFrom(ls, time, i) ==
    IF i > Len(ls) THEN -1
    ELSE LET line == ls[i]
             hasNext == i + 1 <= Len(ls)
         IN IF time >= line.startTime /\ time <= line.endTime THEN i - 1
            ELSE IF time > line.endTime /\ hasNext /\ time < ls[i + 1].startTime
                 THEN GapIndex(line, ls[i + 1], time, i)
            ELSE IF time > line.endTime /\ ~hasNext
                 THEN IF time <= line.endTime + 4 THEN i - 1 ELSE -1
            ELSE LyricIndexFrom(ls, time, i + 1)

\* As findCurrentLyricIndex, but no line is active before the first one.
findCurrentLyricIndex_BlankBeforeFirst(ls, time) ==
    IF Len(ls) = 0 THEN -1
    ELSE LyricIndexFrom(ls, time, 1)

findCurrentLyricIndex(ls, time) ==
    IF Len(ls) = 0 THEN -1
    ELSE IF time < ls[1].startTime THEN 0
    ELSE LyricIndexFrom(ls, time, 1)

----------------------------------------------------------------------------
(* The judgement of one note (loop, lines 376-403). *)

\* 1200 * Math.log2(sample / targetFreq)
Cents(sample, targetFreq) == sample - targetFreq

\* As BestSample, but the last sample is kept, not the closest.
BestSample_Last(samples, word, best) ==
    IF samples = <<>> THEN best
    ELSE [bestFreq |-> samples[Len(samples)],
          bestCents |-> Abs(Cents(samples[Len(samples)], midiToFreq(word.midi)))]

RECURSIVE BestSample(_, _, _)
\* for (const sample of samples): keep the sample of least |cents|.  With a
\* NaN target every comparison is false and nothing is kept.
BestSample(samples, word, best) ==
    IF samples = <<>> THEN best
    ELSE LET sample == Head(samples)
             absCents == Abs(Cents(sample, midiToFreq(word.midi)))
             kept == IF word.midiKind = "finite" /\ absCents < best.bestCents
                     THEN [bestFreq |-> sample, bestCents |-> absCents]
                     ELSE best
         IN BestSample(Tail(samples), word, kept)

Tier(best) ==
    IF best.bestFreq > 0 /\ best.bestCents < 10 THEN [result |-> "PERFECT", basePoints |-> 100]
    ELSE IF best.bestFreq > 0 /\ best.bestCents < 25 THEN [result |-> "GREAT", basePoints |-> 75]
    ELSE IF best.bestFreq > 0 /\ best.bestCents < 50 THEN [result |-> "GOOD", basePoints |-> 50]
    ELSE [result |-> "MISS", basePoints |-> 0]

\* As Judge, but the search starts at the target itself, not at infinity.
Judge_StartsAtTarget(samples, word) ==
    Tier(BestSample(samples, word, [bestFreq |-> midiToFreq(word.midi), bestCents |-> 0]))

Judge(samples, word) ==
    Tier(BestSample(samples, word, [bestFreq |-> 0, bestCents |-> POSITIVE_INFINITY]))

\* As mult, but without the cap.
mult_Uncapped(c) == 10 + c

\* Math.min(2, 1 + comboRef.current * 0.1), in tenths.
mult(c) == Min(20, 10 + c)

\* As Points, but with the combo after its increment.
Points_FromNewCombo(basePoints, c) == RoundDiv(basePoints * mult(c + 1), 10)

\* Math.round(basePoints * mult)
Points(basePoints, c) == RoundDiv(basePoints * mult(c), 10)

\* As Applied, but a miss costs 10 points.
Applied_MissCostsPoints(tier, c, mic) ==
    IF tier.basePoints > 0 /\ mic
    THEN [type |-> tier.result, points |-> Points(tier.basePoints, c), combo |-> c + 1]
    ELSE [type |-> "MISS", points |-> -10, combo |-> 0]

\* As Applied, but a miss leaves the combo as it was.
Applied_MissKeepsCombo(tier, c, mic) ==
    IF tier.basePoints > 0 /\ mic
    THEN [type |-> tier.result, points |-> Points(tier.basePoints, c), combo |-> c + 1]
    ELSE [type |-> "MISS", points |-> 0, combo |-> c]

\* The score/combo branch (lines 409-421): what is added, the new combo and
\* the type shown in the score popup.
Applied(tier, c, mic) ==
    IF tier.basePoints > 0 /\ mic
    THEN [type |-> tier.result, points |-> Points(tier.basePoints, c), combo |-> c + 1]
    ELSE [type |-> "MISS", points |-> 0, combo |-> 0]

\* As ShouldScore, but a note without pending samples is passed over.
ShouldScore_OnlySampled(st, word, now) ==
    /\ word.midiKind # "undefined"
    /\ ~(now <= word.endTime)
    /\ ~MapHas(st.scoredResults, Key(word))
    /\ MapHas(st.pitchSamples, Key(word))

\* As ShouldScore, but a note is due as soon as its window has opened.
ShouldScore_FromStartTime(st, word, now) ==
    /\ word.midiKind # "undefined"
    /\ ~(now < word.startTime)
    /\ ~MapHas(st.scoredResults, Key(word))

\* As ShouldScore, but a note is due from its end time on.
ShouldScore_FromEndTime(st, word, now) ==
    /\ word.midiKind # "undefined"
    /\ ~(now < word.endTime)
    /\ ~MapHas(st.scoredResults, Key(word))

\* As ShouldScore, but only a record made at this very time counts.
ShouldScore_UnlessScoredNow(st, word, now) ==
    /\ word.midiKind # "undefined"
    /\ ~(now <= word.endTime)
    /\ ~(MapHas(st.scoredResults, Key(word)) /\ st.scoredResults[Key(word)].scoredAt = now)

\* As ShouldScore, but without the look-up of an existing record.
ShouldScore_IgnoresRecord(st, word, now) ==
    /\ word.midiKind # "undefined"
    /\ ~(now <= word.endTime)

\* The three early returns of the second words.forEach (lines 371-374).
ShouldScore(st, word, now) ==
    /\ word.midiKind # "undefined"
    /\ ~(now <= word.endTime)
    /\ ~MapHas(st.scoredResults, Key(word))

\* One iteration of the second words.forEach (lines 370-432) on the engine
\* state st, at time now with isMicOnRef.current = mic.
ScoreWord(st, word, now, mic) ==
    IF ~ShouldScore(st, word, now) THEN st
    ELSE LET key == Key(word)
             samples == IF MapHas(st.pitchSamples, key) THEN st.pitchSamples[key] ELSE <<>>
             tier == Judge(samples, word)
             ap == Applied(tier, st.combo, mic)
         IN [scoredResults |-> MapSet(st.scoredResults, key, [result |-> tier.result, scoredAt |-> now]),
             pitchSamples |-> MapDelete(st.pitchSamples, key),
             score |-> st.score + ap.points,
             combo |-> ap.combo,
             scorePopups |-> Append(LastThree(st.scorePopups), [type |-> ap.type, points |-> ap.points]),
             judgementPopups |-> Append(st.judgementPopups, [text |-> tier.result, time |-> now]),
             judged |-> Append(st.judged,
                          [key |-> key, samples |-> samples, result |-> tier.result,
                           basePoints |-> tier.basePoints, type |-> ap.type,
                           points |-> ap.points, mic |-> mic, time |-> now,
                           comboBefore |-> st.combo, comboAfter |-> ap.combo,
                           scoreBefore |-> st.score, scoreAfter |-> st.score + ap.points]),
             scoreCalls |-> MapSet(st.scoreCalls, key,
                              IF MapHas(st.scoreCalls, key) THEN st.scoreCalls[key] + 1 ELSE 1)]

RECURSIVE ScoreWords_LastFirst(_, _, _, _)
\* As ScoreWords, but from the last word to the first.
ScoreWords_LastFirst(st, ws, now, mic) ==
    IF ws = <<>> THEN st
    ELSE CHOOSE out \in {ScoreWord(rest, Head(ws), now, mic) :
                            rest \in {ScoreWords_LastFirst(st, Tail(ws), now, mic)}} : TRUE

RECURSIVE ScoreWords(_, _, _, _)
\* words.forEach(word => ...), in the order of words.
ScoreWords(st, ws, now, mic) ==
    IF ws = <<>> THEN st
    ELSE CHOOSE out \in {ScoreWords(next, Tail(ws), now, mic) :
                            next \in {ScoreWord(st, Head(ws), now, mic)}} : TRUE

\* One iteration of the first words.forEach (lines 360-367).
CollectWord(samples, word, now, frequency) ==
    IF InWindow(word, now) /\ word.midiKind # "undefined"
    THEN MapSet(samples, Key(word),
                Append(IF MapHas(samples, Key(word)) THEN samples[Key(word)] ELSE <<>>, frequency))
    ELSE samples

RECURSIVE CollectWords(_, _, _, _)
CollectWords(samples, ws, now, frequency) ==
    IF ws = <<>> THEN samples
    ELSE CollectWords(CollectWord(samples, Head(ws), now, frequency), Tail(ws), now, frequency)

\* As Collect, but whether the microphone is on or off.
Collect_IgnoresMic(samples, ws, now, mic, frequency) ==
    IF frequency > 0
    THEN CollectWords(samples, ws, now, frequency)
    ELSE samples

\* Lines 359-368: the latest pitch goes to every open note while the
\* microphone is on and that pitch is positive.
Collect(samples, ws, now, mic, frequency) ==
    IF mic /\ frequency > 0
    THEN CollectWords(samples, ws, now, frequency)
    ELSE samples

----------------------------------------------------------------------------
(* autoCorrelate (lines 270-320).  A buffer is a sequence of amplitudes in  *)
(* units of 0.005; sums of products are in units of 0.005 * 0.005.  The     *)
(* result is the fraction num / den as JavaScript computes it: den = 0      *)
(* gives Infinity and den < 0 a negative number.  Reading an array past its *)
(* end gives undefined, with which every comparison is false; 0 / 0 is NaN, *)
(* with which every comparison is false as well.                            *)

RECURSIVE SumProducts(_, _, _, _)
\* The sum of buffer[j] * buffer[j + i] for j in lo..hi, indices counting
\* from 1; the range is halved so that long buffers need few nested calls.
SumProducts(buffer, i, lo, hi) ==
    IF lo > hi THEN 0
    ELSE IF lo = hi THEN buffer[lo] * buffer[lo + i]
    ELSE LET mid == (lo + hi) \div 2
         IN SumProducts(buffer, i, lo, mid) + SumProducts(buffer, i, mid + 1, hi)

\* rms += buffer[i] * buffer[i]
SumSq(buffer) == SumProducts(buffer, 0, 1, Len(buffer))

\* As Silent, but no buffer is taken for silence.
Silent_Never(buffer) == FALSE

\* rms = Math.sqrt(rms / size); rms < 0.01: the mean square is below 0.0001,
\* which is 4 units.  An empty buffer has rms NaN and is not below.
Silent(buffer) == Len(buffer) > 0 /\ SumSq(buffer) < 4 * Len(buffer)

\* Lines 283-288: the index, counting from 0, of the first sample below the
\* threshold in the first half; 0 when there is none.
TrimStart(buffer) ==
    LET size == Len(buffer)
        below == {i \in 0..(size - 1) : 2 * i < size /\ Abs(buffer[i + 1]) < threshold}
    IN IF below = {} THEN 0 ELSE CHOOSE i \in below : \A k \in below : i <= k

\* Lines 290-295: size - i for the first i >= 1 in the first half whose
\* sample buffer[size - i] is below the threshold; size - 1 when there is none.
TrimEnd(buffer) ==
    LET size == Len(buffer)
        below == {i \in 1..(size - 1) : 2 * i < size /\ Abs(buffer[size - i + 1]) < threshold}
    IN IF below = {} THEN size - 1
       ELSE size - (CHOOSE i \in below : \A k \in below : i <= k)

\* buffer.slice(r1, r2)
Slice(buffer, r1, r2) ==
    IF r2 <= r1 THEN <<>> ELSE SubSeq(buffer, r1 + 1, r2)

\* c[i] = buffer[0] * buffer[i] + ... + buffer[n - 1] * buffer[n - 1 + i],
\* n = size - i (lines 301-305).
Correlation(buffer, i, n) == SumProducts(buffer, i, 1, n)

RECURSIVE Descent(_, _)
\* while (c[d] > c[d + 1]) d++; c is indexed from 0 by c[i + 1].
Descent(c, d) ==
    IF d + 2 <= Len(c) /\ c[d + 1] > c[d + 2] THEN Descent(c, d + 1) ELSE d

\* Lines 312-317 from index i on, with best = [maxval, maxpos]: the loop ends
\* with the first index of the greatest value, when that value exceeds maxval.
Peak(c, i, best) ==
    LET above == {k \in i..(Len(c) - 1) : c[k + 1] > best.maxval}
    IN IF above = {} THEN best
       ELSE LET top == CHOOSE k \in above :
                           \A j \in above : c[j + 1] < c[k + 1] \/ (c[j + 1] = c[k + 1] /\ k <= j)
            IN [maxval |-> c[top + 1], maxpos |-> top]

autoCorrelate(buffer, sampleRate) ==
    IF Silent(buffer) THEN [num |-> NoPitch, den |-> 1]
    ELSE LET trimmed == Slice(buffer, TrimStart(buffer), TrimEnd(buffer))
             size == Len(trimmed)
             c == [i \in 1..size |-> Correlation(trimmed, i - 1, size - (i - 1))]
             d == Descent(c, 0)
             \* maxval = -1 is -40000 units
             best == Peak(c, d, [maxval |-> -40000, maxpos |-> -1])
         IN [num |-> sampleRate, den |-> best.maxpos]

\* frequency > 0 (line 349) for frequency = num / den.
IsPositive(frequency) ==
    IF frequency.den = 0 THEN frequency.num > 0
    ELSE frequency.num * frequency.den > 0

\* Lines 346-354: the estimate of one buffer, and whether it becomes the
\* latest pitch and a trail entry.
Analyse(buffer, sampleRate) ==
    LET frequency == autoCorrelate(buffer, sampleRate)
    IN [frequency |-> frequency, pushed |-> IsPositive(frequency)]

----------------------------------------------------------------------------
(* The update loop (loop, lines 322-432 and the popup expiry of line 696). *)

\* est is what autoCorrelate returns for this frame's buffer, were it run;
\* ws is the words array the callback closed over and st the refs after the
\* scoring forEach.
Tick(est) ==
    \E ws \in {words} :
    LET now == IF currentSong.audioUrl THEN currentTime ELSE lastTime
        moved == Abs(now - lastTime) >= 1
        analysed == isMicOn /\ analyser
        voiced == analysed /\ est > 0
        pitch == IF voiced THEN [frequency |-> est] ELSE latestPitch
        pushed == IF voiced
                  THEN Append(userPitchTrail, [time |-> now, midi |-> quantizedMidi(est)])
                  ELSE userPitchTrail
        collected == Collect(pitchSamples, ws, now, isMicOn, pitch.frequency)
        scored == ScoreWords([scoredResults |-> scoredResults, pitchSamples |-> collected,
                          score |-> score, combo |-> combo, scorePopups |-> scorePopups,
                          judgementPopups |-> judgementPopups, judged |-> <<>>,
                          scoreCalls |-> scoreCalls],
                         ws, now, isMicOn)
    IN \E st \in {scored} :
       /\ lastTime' = IF moved THEN now ELSE lastTime
       /\ currentLyricIndex' = IF moved THEN findCurrentLyricIndex(currentSong.lyrics, now)
                               ELSE currentLyricIndex
       /\ latestPitch' = pitch
       /\ userPitchTrail' = FilterSeq(pushed, now, 2 * USER_TRAIL_SECONDS)
       /\ Len(userPitchTrail') <= currentSong.trail
       /\ \A k \in DOMAIN st.pitchSamples : Len(st.pitchSamples[k]) <= MaxSamples
       /\ scoredResults' = st.scoredResults
       /\ pitchSamples' = st.pitchSamples
       /\ score' = st.score
       /\ combo' = st.combo
       /\ scorePopups' = st.scorePopups
       /\ judgementPopups' = FilterSeq(st.judgementPopups, now, 1)
       /\ judged' = st.judged
       /\ scoreCalls' = st.scoreCalls
       /\ micInWindow' = IF isMicOn
                         THEN micInWindow \cup {Key(ws[i]) : i \in {j \in DOMAIN ws : InWindow(ws[j], now)}}
                         ELSE micInWindow
       /\ heard' = (heard \/ voiced)
       /\ UNCHANGED <<probe, currentSong, currentTime, isMicOn, analyser, mediaStream, pendingStarts>>

----------------------------------------------------------------------------
(* Playback position: the audio element plays on, or the user seeks. *)

Advance ==
    /\ currentSong.audioUrl
    /\ currentTime + currentSong.step <= currentSong.duration
    /\ currentTime' = currentTime + currentSong.step
    /\ judged' = <<>>
    /\ UNCHANGED <<probe, currentSong, lastTime, currentLyricIndex, isMicOn, analyser, mediaStream,
                   pendingStarts, latestPitch, userPitchTrail, scoredResults, pitchSamples,
                   score, combo, scorePopups, judgementPopups, scoreCalls, micInWindow, heard>>

\* As handleSeek, but the seek also empties the pitch trail.
handleSeek_ClearsTrail(newTime) ==
    /\ currentSong.audioUrl
    /\ currentSong.duration > 0
    /\ newTime \in Times
    /\ currentTime' = newTime
    /\ userPitchTrail' = <<>>
    /\ judged' = <<>>
    /\ UNCHANGED <<probe, currentSong, lastTime, currentLyricIndex, isMicOn, analyser, mediaStream,
                   pendingStarts, latestPitch, scoredResults, pitchSamples,
                   score, combo, scorePopups, judgementPopups, scoreCalls, micInWindow, heard>>

\* newTime = clamp(percent, 0, 1) * duration
handleSeek(newTime) ==
    /\ currentSong.audioUrl
    /\ currentSong.duration > 0
    /\ newTime \in Times
    /\ currentTime' = newTime
    /\ judged' = <<>>
    /\ UNCHANGED <<probe, currentSong, lastTime, currentLyricIndex, isMicOn, analyser, mediaStream,
                   pendingStarts, latestPitch, userPitchTrail, scoredResults, pitchSamples,
                   score, combo, scorePopups, judgementPopups, scoreCalls, micInWindow, heard>>

\* As handleRestart, but the combo is kept.
handleRestart_KeepsCombo ==
    /\ currentSong.audioUrl
    /\ currentTime' = 0
    /\ lastTime' = 0
    /\ currentLyricIndex' = -1
    /\ score' = 0
    /\ scorePopups' = <<>>
    /\ userPitchTrail' = <<>>
    /\ scoredResults' = EmptyMap
    /\ pitchSamples' = EmptyMap
    /\ judgementPopups' = <<>>
    /\ judged' = <<>>
    /\ scoreCalls' = EmptyMap
    /\ micInWindow' = {}
    /\ heard' = FALSE
    /\ UNCHANGED <<probe, currentSong, isMicOn, analyser, mediaStream, pendingStarts,
                   latestPitch, combo>>

\* As handleRestart, but the scoring records are kept.
handleRestart_KeepsRecords ==
    /\ currentSong.audioUrl
    /\ currentTime' = 0
    /\ lastTime' = 0
    /\ currentLyricIndex' = -1
    /\ score' = 0
    /\ combo' = 0
    /\ scorePopups' = <<>>
    /\ userPitchTrail' = <<>>
    /\ pitchSamples' = EmptyMap
    /\ judgementPopups' = <<>>
    /\ judged' = <<>>
    /\ scoreCalls' = EmptyMap
    /\ micInWindow' = {}
    /\ heard' = FALSE
    /\ UNCHANGED <<probe, currentSong, isMicOn, analyser, mediaStream, pendingStarts,
                   latestPitch, scoredResults>>

handleRestart ==
    /\ currentSong.audioUrl
    /\ currentTime' = 0
    /\ lastTime' = 0
    /\ currentLyricIndex' = -1
    /\ score' = 0
    /\ combo' = 0
    /\ scorePopups' = <<>>
    /\ userPitchTrail' = <<>>
    /\ scoredResults' = EmptyMap
    /\ pitchSamples' = EmptyMap
    /\ judgementPopups' = <<>>
    /\ judged' = <<>>
    /\ scoreCalls' = EmptyMap
    /\ micInWindow' = {}
    /\ heard' = FALSE
    /\ UNCHANGED <<probe, currentSong, isMicOn, analyser, mediaStream, pendingStarts, latestPitch>>

----------------------------------------------------------------------------
(* Microphone: the MIC button, startMicrophone, stopMicrophone and the     *)
(* effect on isMicOn.                                                      *)

\* The effect of lines 215-223 after isMicOn became on: stopMicrophone when
\* off; startMicrophone when on without an analyser, which returns at once
\* when a stream is held and otherwise awaits getUserMedia.
MicEffect(on) ==
    IF ~on
    THEN /\ mediaStream' = FALSE
         /\ analyser' = FALSE
         /\ pendingStarts' = pendingStarts
    ELSE IF ~analyser /\ ~mediaStream
    THEN /\ pendingStarts < MaxPending
         /\ pendingStarts' = pendingStarts + 1
         /\ UNCHANGED <<mediaStream, analyser>>
    ELSE UNCHANGED <<mediaStream, analyser, pendingStarts>>

\* As ToggleMic, but switching the microphone also ends the combo.
ToggleMic_EndsCombo ==
    /\ isMicOn' = ~isMicOn
    /\ MicEffect(~isMicOn)
    /\ judged' = <<>>
    /\ combo' = 0
    /\ UNCHANGED <<probe, currentSong, currentTime, lastTime, currentLyricIndex, latestPitch,
                   userPitchTrail, scoredResults, pitchSamples, score, scorePopups,
                   judgementPopups, scoreCalls, micInWindow, heard>>

\* onClick={() => setIsMicOn(!isMicOn)}
ToggleMic ==
    /\ isMicOn' = ~isMicOn
    /\ MicEffect(~isMicOn)
    /\ judged' = <<>>
    /\ UNCHANGED <<probe, currentSong, currentTime, lastTime, currentLyricIndex, latestPitch,
                   userPitchTrail, scoredResults, pitchSamples, score, combo, scorePopups,
                   judgementPopups, scoreCalls, micInWindow, heard>>

\* getUserMedia resolves: startMicrophone continues at line 143.
MicGranted ==
    /\ pendingStarts > 0
    /\ pendingStarts' = pendingStarts - 1
    /\ mediaStream' = TRUE
    /\ analyser' = TRUE
    /\ isMicOn' = TRUE
    /\ judged' = <<>>
    /\ UNCHANGED <<probe, currentSong, currentTime, lastTime, currentLyricIndex, latestPitch,
                   userPitchTrail, scoredResults, pitchSamples, score, combo, scorePopups,
                   judgementPopups, scoreCalls, micInWindow, heard>>

\* getUserMedia rejects: the catch block sets isMicOn to false, and the
\* effect then calls stopMicrophone.
MicDenied ==
    /\ pendingStarts > 0
    /\ pendingStarts' = pendingStarts - 1
    /\ isMicOn' = FALSE
    /\ mediaStream' = FALSE
    /\ analyser' = FALSE
    /\ judged' = <<>>
    /\ UNCHANGED <<probe, currentSong, currentTime, lastTime, currentLyricIndex, latestPitch,
                   userPitchTrail, scoredResults, pitchSamples, score, combo, scorePopups,
                   judgementPopups, scoreCalls, micInWindow, heard>>

----------------------------------------------------------------------------
(* The specification. *)

\* Results of the pitch estimator in Spec: none, and 440 Hz.
Estimates == {NoPitch, 6900}

NoProbe == [fn |-> "none"]

\* The refs and the React state of a freshly mounted component.
MountedInit ==
    /\ currentTime = 0
    /\ lastTime = 0
    /\ currentLyricIndex = -1
    /\ isMicOn = TRUE
    /\ analyser = FALSE
    /\ mediaStream = FALSE
    /\ pendingStarts = 1
    /\ latestPitch = [frequency |-> 0]
    /\ userPitchTrail = <<>>
    /\ scoredResults = EmptyMap
    /\ pitchSamples = EmptyMap
    /\ score = 0
    /\ combo = 0
    /\ scorePopups = <<>>
    /\ judgementPopups = <<>>
    /\ judged = <<>>
    /\ scoreCalls = EmptyMap
    /\ micInWindow = {}
    /\ heard = FALSE

EngineInit ==
    /\ currentSong \in Songs
    /\ MountedInit

Init ==
    /\ EngineInit
    /\ probe = NoProbe

Next ==
    \/ \E est \in Estimates : Tick(est)
    \/ Advance
    \/ \E t \in 0..currentSong.duration : handleSeek(t)
    \/ handleRestart
    \/ ToggleMic
    \/ MicGranted
    \/ MicDenied

Spec == Init /\ [][Next]_vars

----------------------------------------------------------------------------
(* SpecTrail: the same component on SongTrail, whose playback positions lie *)
(* closer together than the trail window is long.                           *)

InitTrail ==
    /\ currentSong = SongTrail
    /\ MountedInit
    /\ probe = NoProbe

SpecTrail == InitTrail /\ [][Next]_vars

----------------------------------------------------------------------------
(* SpecSeek: the same component on SongSeek, where an entry pushed after a  *)
(* backward seek meets the entries pushed before it.                        *)

InitSeek ==
    /\ currentSong = SongSeek
    /\ MountedInit
    /\ probe = NoProbe

SpecSeek == InitSeek /\ [][Next]_vars

----------------------------------------------------------------------------
(* SpecMic: the component on SongSeek with the play button, whose handler   *)
(* starts the microphone too.                                               *)

\* togglePlay (lines 225-239), as far as the microphone goes: on play, with
\* the microphone enabled and no analyser, it calls startMicrophone, which
\* passes the test of line 141 while no stream is stored and then waits for
\* getUserMedia.  Playing and pausing are the progress of the playback time.
togglePlay ==
    /\ currentSong.audioUrl
    /\ isMicOn /\ ~analyser /\ ~mediaStream
    /\ pendingStarts < MaxStarts
    /\ pendingStarts' = pendingStarts + 1
    /\ judged' = <<>>
    /\ UNCHANGED <<probe, currentSong, currentTime, lastTime, currentLyricIndex, isMicOn,
                   analyser, mediaStream, latestPitch, userPitchTrail, scoredResults,
                   pitchSamples, score, combo, scorePopups, judgementPopups, scoreCalls,
                   micInWindow, heard>>

InitMic ==
    /\ currentSong = SongSeek
    /\ MountedInit
    /\ probe = NoProbe

NextMic ==
    \/ Next
    \/ togglePlay

SpecMic == InitMic /\ [][NextMic]_vars

----------------------------------------------------------------------------
(* SpecSongChange: the store replaces currentSong while the component is    *)
(* mounted.                                                                 *)

\* useSelector delivers the new song: lyrics, words and the src of the audio
\* element are those of the new song, and the audio element loads the new
\* src from its start.  No ref and no other React state is written.
ChangeSong(song) ==
    /\ song # currentSong
    /\ currentSong' = song
    /\ currentTime' = 0
    /\ judged' = <<>>
    /\ UNCHANGED <<probe, lastTime, currentLyricIndex, isMicOn, analyser, mediaStream,
                   pendingStarts, latestPitch, userPitchTrail, scoredResults, pitchSamples,
                   score, combo, scorePopups, judgementPopups, scoreCalls, micInWindow, heard>>

InitSongChange ==
    /\ currentSong \in {SongA, SongB}
    /\ MountedInit
    /\ probe = NoProbe

NextSongChange ==
    \/ Next
    \/ \E song \in {SongA, SongB} : ChangeSong(song)

SpecSongChange == InitSongChange /\ [][NextSongChange]_vars

----------------------------------------------------------------------------
(* SpecMalformed: the same component on SongMalformed. *)

InitMalformed ==
    /\ currentSong = SongMalformed
    /\ MountedInit
    /\ probe = NoProbe

SpecMalformed == InitMalformed /\ [][Next]_vars

----------------------------------------------------------------------------
(* SpecScoreWord: one judgement, ScoreWord as a function of its input.  The  *)
(* input is the first note of SongA, due for judgement, with a list of       *)
(* samples, a combo, a score and the microphone flag.                        *)

SeqsUpTo(S, n) == UNION {[1..m -> S] : m \in 0..n}

\* Around A4: 0, +5, -4, -10, +24, +25, -49 and +50 cents.
ProbeFreqs == {6900, 6905, 6896, 6890, 6924, 6925, 6851, 6950}
\* One frequency per tier: PERFECT, GREAT, GOOD, MISS.
TierFreqs == {6900, 6890, 6925, 6950}
ProbeScores == {0, 950}

ScoreWordCases ==
    ({0} \X SeqsUpTo(ProbeFreqs, MaxProbeSamples))
        \cup ((0..MaxCombo) \X SeqsUpTo(TierFreqs, 1))

ProbeWord == WordsOf(SongA)[1]

ProbeState(c, sc, samples) ==
    [scoredResults |-> EmptyMap,
     pitchSamples |-> IF samples = <<>> THEN EmptyMap
                      ELSE MapSet(EmptyMap, Key(ProbeWord), samples),
     score |-> sc, combo |-> c, scorePopups |-> <<>>, judgementPopups |-> <<>>,
     judged |-> <<>>, scoreCalls |-> EmptyMap]

ScoreWordInputs ==
    {[fn |-> "ScoreWord", done |-> FALSE, word |-> ProbeWord, now |-> 2 * Step,
      mic |-> m, st |-> ProbeState(cs[1], sc, cs[2]), out |-> ProbeState(cs[1], sc, cs[2])] :
        cs \in ScoreWordCases, sc \in ProbeScores, m \in BOOLEAN}

InitScoreWord ==
    /\ EngineInit
    /\ probe \in ScoreWordInputs

ProbeScoreWord ==
    /\ probe.fn = "ScoreWord"
    /\ ~probe.done
    /\ probe' = [probe EXCEPT !.done = TRUE,
                              !.out = ScoreWord(probe.st, probe.word, probe.now, probe.mic)]
    /\ UNCHANGED <<currentSong, currentTime, lastTime, currentLyricIndex, isMicOn, analyser,
                   mediaStream, pendingStarts, latestPitch, userPitchTrail, scoredResults,
                   pitchSamples, score, combo, scorePopups, judgementPopups, judged,
                   scoreCalls, micInWindow, heard>>

NextScoreWord == ProbeScoreWord

SpecScoreWord == InitScoreWord /\ [][NextScoreWord]_vars

----------------------------------------------------------------------------
(* SpecMult: the multiplier at two combos lo <= hi, and the points that a   *)
(* judgement with basePoints earns at combo hi.                             *)

MultInputs ==
    {[fn |-> "mult", done |-> FALSE, lo |-> a, hi |-> b, basePoints |-> bp,
      out |-> [lo |-> 0, hi |-> 0, points |-> 0]] :
        a \in 0..MaxCombo, b \in 0..MaxCombo, bp \in {50, 75, 100}}

InitMult ==
    /\ EngineInit
    /\ probe \in {p \in MultInputs : p.lo <= p.hi}

ProbeMult ==
    /\ probe.fn = "mult"
    /\ ~probe.done
    /\ probe' = [probe EXCEPT !.done = TRUE,
                              !.out = [lo |-> mult(probe.lo), hi |-> mult(probe.hi),
                                       points |-> Points(probe.basePoints, probe.hi)]]
    /\ UNCHANGED <<currentSong, currentTime, lastTime, currentLyricIndex, isMicOn, analyser,
                   mediaStream, pendingStarts, latestPitch, userPitchTrail, scoredResults,
                   pitchSamples, score, combo, scorePopups, judgementPopups, judged,
                   scoreCalls, micInWindow, heard>>

NextMult == ProbeMult

SpecMult == InitMult /\ [][NextMult]_vars

----------------------------------------------------------------------------
(* SpecIndexer: findCurrentLyricIndex as a function of the timeline and the *)
(* time.  A timeline is up to MaxLines lines [start, end], start < end, one *)
(* line ending before the next starts, with boundaries in 0..MaxLineTime,   *)
(* and the timeline LinesAB; the time runs to 2.5 s past MaxLineTime.       *)

RECURSIVE LinesOf(_)
\* The lines whose boundaries are the numbers of S, in increasing order.
LinesOf(S) ==
    IF S = {} THEN <<>>
    ELSE LET s == CHOOSE x \in S : \A y \in S : x <= y
             e == CHOOSE x \in S \ {s} : \A y \in S \ {s} : x <= y
         IN <<Line(s, e, <<>>)>> \o LinesOf(S \ {s, e})

\* Line A [0 s, 5 s] and line B [8 s, 12 s].
LinesAB == <<Line(0, 10, <<>>), Line(16, 24, <<>>)>>

Timelines ==
    {LinesOf(S) : S \in {B \in SUBSET (0..MaxLineTime) :
                             Cardinality(B) % 2 = 0 /\ Cardinality(B) <= 2 * MaxLines}}
        \cup {LinesAB}

IndexerInputs ==
    {[fn |-> "findCurrentLyricIndex", done |-> FALSE, lyrics |-> ls, time |-> t, out |-> -1] :
        ls \in Timelines, t \in 0..(MaxLineTime + 5)}

InitIndexer ==
    /\ EngineInit
    /\ probe \in IndexerInputs

ProbeIndexer ==
    /\ probe.fn = "findCurrentLyricIndex"
    /\ ~probe.done
    /\ probe' = [probe EXCEPT !.done = TRUE,
                              !.out = findCurrentLyricIndex(probe.lyrics, probe.time)]
    /\ UNCHANGED <<currentSong, currentTime, lastTime, currentLyricIndex, isMicOn, analyser,
                   mediaStream, pendingStarts, latestPitch, userPitchTrail, scoredResults,
                   pitchSamples, score, combo, scorePopups, judgementPopups, judged,
                   scoreCalls, micInWindow, heard>>

NextIndexer == ProbeIndexer

SpecIndexer == InitIndexer /\ [][NextIndexer]_vars

----------------------------------------------------------------------------
(* SpecEstimator: autoCorrelate, and the use line 349 makes of its result,  *)
(* as a function of the buffer and the sample rate.  Buffers hold up to     *)
(* MaxBuffer samples, either of 0, 0.15 and 0.3 in both signs or of 0 and   *)
(* 0.005.                                                                   *)

LoudAmplitudes == {-60, -30, 0, 30, 60}
QuietAmplitudes == {0, 1}
SampleRates == {44100, 48000}

Buffers == SeqsUpTo(LoudAmplitudes, MaxBuffer) \cup SeqsUpTo(QuietAmplitudes, MaxBuffer)

EstimatorInputs ==
    {[fn |-> "autoCorrelate", done |-> FALSE, buffer |-> b, sampleRate |-> r,
      out |-> [frequency |-> [num |-> 0, den |-> 1], pushed |-> FALSE]] :
        b \in Buffers, r \in SampleRates}

InitEstimator ==
    /\ EngineInit
    /\ probe \in EstimatorInputs

ProbeEstimator ==
    /\ probe.fn = "autoCorrelate"
    /\ ~probe.done
    /\ probe' = [probe EXCEPT !.done = TRUE,
                              !.out = Analyse(probe.buffer, probe.sampleRate)]
    /\ UNCHANGED <<currentSong, currentTime, lastTime, currentLyricIndex, isMicOn, analyser,
                   mediaStream, pendingStarts, latestPitch, userPitchTrail, scoredResults,
                   pitchSamples, score, combo, scorePopups, judgementPopups, judged,
                   scoreCalls, micInWindow, heard>>

NextEstimator == ProbeEstimator

SpecEstimator == InitEstimator /\ [][NextEstimator]_vars

----------------------------------------------------------------------------
(* SpecSine: autoCorrelate on a window of a pure sine wave of amplitude 1.0. *)
(* SineTable holds one cycle, 200 * sin(2 * pi * k / 89) rounded, for        *)
(* k = 0..88; taking every step-th entry from a phase on gives a sine of     *)
(* period 89 / step samples, that is of frequency sampleRate * step / 89.    *)

SineTable ==
    <<0, 14, 28, 42, 56, 69, 82, 95, 107, 119, 130, 140, 150, 159, 167, 174, 181,
      186, 191, 195, 197, 199, 200, 200, 198, 196, 193, 189, 184, 178, 171, 163,
      154, 145, 135, 124, 113, 101, 89, 76, 62, 49, 35, 21, 7, -7, -21, -35, -49,
      -62, -76, -89, -101, -113, -124, -135, -145, -154, -163, -171, -178, -184,
      -189, -193, -196, -198, -200, -200, -199, -197, -195, -191, -186, -181,
      -174, -167, -159, -150, -140, -130, -119, -107, -95, -82, -69, -56, -42,
      -28, -14>>

SineBuffer(step, phase) ==
    [n \in 1..SineWindow |-> SineTable[((phase + step * (n - 1)) % Len(SineTable)) + 1]]

SineInputs ==
    {[fn |-> "autoCorrelate", done |-> FALSE, buffer |-> SineBuffer(st, ph),
      sampleRate |-> r, step |-> st, phase |-> ph,
      out |-> [frequency |-> [num |-> 0, den |-> 1], pushed |-> FALSE]] :
        st \in {1, 2}, ph \in 0..(Len(SineTable) - 1), r \in SampleRates}

InitSine ==
    /\ EngineInit
    /\ probe \in SineInputs

SpecSine == InitSine /\ [][NextEstimator]_vars

----------------------------------------------------------------------------
(* Properties. *)

NonMiss == {"PERFECT", "GREAT", "GOOD"}

Pending(m, k) == IF MapHas(m, k) THEN m[k] ELSE <<>>

\* The step is one run of the update loop.
TickStep == \E est \in Estimates : Tick(est)

\* The step appends nothing to any pending sample list.
NothingAppended ==
    \A k \in DOMAIN pitchSamples' :
        MapHas(pitchSamples, k) /\ Len(pitchSamples'[k]) <= Len(pitchSamples[k])

\* The step appends frequency once to the list of every note open at now, and
\* to the list of no other note.
AppendedToOpenNotes(now, frequency) ==
    \A i \in DOMAIN words :
        LET k == Key(words[i])
        IN IF words[i].startTime <= now /\ now <= words[i].endTime
           THEN MapHas(pitchSamples', k)
                /\ pitchSamples'[k] = Append(Pending(pitchSamples, k), frequency)
           ELSE MapHas(pitchSamples', k) => pitchSamples'[k] = Pending(pitchSamples, k)

\* C1: between two restarts every note, identified by (line index, position),
\* is scored at most once, whatever the playback times of the ticks.
C1_ScoredAtMostOnce ==
    \A k \in DOMAIN scoreCalls : scoreCalls[k] <= 1

\* A scored note whose window was entered again (it has samples once more) and
\* left again by a later tick.
C1_Witness ==
    /\ MapHas(scoreCalls, <<0, 0>>)
    /\ MapHas(pitchSamples, <<0, 0>>)
    /\ lastTime = 3 * Step
    /\ currentTime = lastTime

\* C2: every judgement applied to score and combo (the type of its score popup)
\* leaves combo 0 when it is MISS and the previous combo plus 1 otherwise.
C2_ComboTransition ==
    /\ \A i \in DOMAIN judged :
        /\ judged[i].type = "MISS" => judged[i].comboAfter = 0
        /\ judged[i].type \in NonMiss => judged[i].comboAfter = judged[i].comboBefore + 1
        /\ judged[i].type \in NonMiss \cup {"MISS"}
        /\ i > 1 => judged[i].comboBefore = judged[i - 1].comboAfter
    /\ judged # <<>> => combo = judged[Len(judged)].comboAfter

\* One tick judged a hit and then a miss: combo went 0, 1, 0.
C2_Witness ==
    /\ Len(judged) = 2
    /\ judged[1].type = "PERFECT" /\ judged[1].comboAfter = 1
    /\ judged[2].type = "MISS" /\ judged[2].comboBefore = 1
    /\ combo = 0

\* C5: restart sets score and combo to 0 and empties the scoring records, the
\* pitch trail and the pending sample lists; and after any tick every note whose
\* end the time has passed has a record, made by that tick if it had none, so
\* that after a restart every note is scored again.
C5_RestartClears ==
    [][/\ handleRestart =>
            /\ score' = 0 /\ combo' = 0
            /\ DOMAIN scoredResults' = {}
            /\ DOMAIN pitchSamples' = {}
            /\ userPitchTrail' = <<>>
       /\ TickStep =>
            \A i \in DOMAIN words :
                currentTime > words[i].endTime =>
                    /\ MapHas(scoredResults', Key(words[i]))
                    /\ ~MapHas(scoredResults, Key(words[i])) =>
                           \E j \in DOMAIN judged' : judged'[j].key = Key(words[i])]_vars

\* Right after a restart that had something to clear: a pitch was heard, which
\* left a trail entry and a sample or a record, and all of them are gone.
C5_Witness ==
    /\ latestPitch.frequency > 0
    /\ DOMAIN scoredResults = {} /\ DOMAIN pitchSamples = {}
    /\ userPitchTrail = <<>>
    /\ score = 0 /\ combo = 0 /\ currentTime = 0 /\ lastTime = 0

\* C6: a tick that produced no new pitch estimate (no analysis ran, or the
\* estimator returned no pitch) appends nothing to any pending sample list.
C6_NoStaleReuse ==
    [][\A est \in Estimates :
          (Tick(est) /\ ~(isMicOn /\ analyser /\ est > 0)) => NothingAppended]_vars

\* C7: a note finalised while the microphone is off is MISS with 0 base points
\* in its record, in its judgement popup and for score and combo alike.
C7_MicOffIsMiss ==
    \A i \in DOMAIN judged :
        ~judged[i].mic =>
            /\ judged[i].result = "MISS"
            /\ judged[i].basePoints = 0
            /\ judged[i].type = "MISS"
            /\ judged[i].comboAfter = 0
            /\ scoredResults[judged[i].key].result = "MISS"

\* C8: a note that no tick sampled with the microphone on is finalised with no
\* samples, as MISS with 0 points, and leaves combo 0.
C8_MicOffThroughoutIsMiss ==
    \A i \in DOMAIN judged :
        judged[i].key \notin micInWindow =>
            /\ judged[i].samples = <<>>
            /\ judged[i].result = "MISS"
            /\ judged[i].type = "MISS"
            /\ judged[i].points = 0
            /\ judged[i].scoreAfter = judged[i].scoreBefore
            /\ judged[i].comboAfter = 0
            /\ scoredResults[judged[i].key].result = "MISS"

\* The second note is judged one position after the first was: the tick that
\* judged the first was inside the second's window, with the microphone off
\* although a pitch had been heard.
C8_Witness ==
    /\ Len(judged) = 1
    /\ judged[1].key = <<0, 1>>
    /\ judged[1].key \notin micInWindow
    /\ latestPitch.frequency > 0
    /\ MapHas(scoredResults, <<0, 0>>)
    /\ scoredResults[<<0, 0>>].scoredAt = 2 * Step
    /\ judged[1].time = 3 * Step

\* C9: a tick with the microphone on and a valid new pitch appends that
\* frequency exactly once to the list of every note whose window, ends
\* included, holds the time, and to no other list; equal samples are all kept.
C9_SampleEveryOpenNote ==
    [][\A est \in Estimates :
          (Tick(est) /\ isMicOn /\ analyser /\ est > 0) =>
              AppendedToOpenNotes(currentTime, est)]_vars

\* Both notes were open at one tick, and the first holds two equal samples.
C9_Witness ==
    /\ Pending(pitchSamples, <<0, 0>>) = <<6900, 6900>>
    /\ Pending(pitchSamples, <<0, 1>>) = <<6900>>
    /\ isMicOn /\ analyser

\* C10: a tick with the microphone off appends nothing to any pending sample
\* list, and a tick with the microphone on again appends the latest pitch to
\* every note whose window is open.
C10_MicGatesSampling ==
    [][TickStep =>
          /\ ~isMicOn => NothingAppended
          /\ (isMicOn /\ latestPitch'.frequency > 0) =>
                 AppendedToOpenNotes(currentTime, latestPitch'.frequency)]_vars

\* The microphone was granted (a pitch was heard), switched off (no analyser)
\* and switched on again (a start is pending), and the open note holds samples.
C10_Witness ==
    /\ isMicOn /\ ~analyser /\ pendingStarts = 1
    /\ latestPitch.frequency > 0
    /\ lastTime = 2 * Step /\ currentTime = lastTime
    /\ Len(Pending(pitchSamples, <<0, 1>>)) = 2

\* The cases of SpecScoreWord after ScoreWord was applied.
Scored == probe.fn = "ScoreWord" /\ probe.done

\* What ScoreWord applied: the type and points of the score popup it added.
AppliedPopup == probe.out.scorePopups[Len(probe.out.scorePopups)]

BasePointsOf(type) ==
    IF type = "PERFECT" THEN 100 ELSE IF type = "GREAT" THEN 75
    ELSE IF type = "GOOD" THEN 50 ELSE 0

\* p = round(b * min(2.0, 1.0 + 0.1 * c)), halves rounding up: in tenths,
\* 10 p - 5 <= b * min(20, 10 + c) < 10 p + 5.
IsRoundedPoints(p, b, c) ==
    LET tenths == b * (IF 10 + c > 20 THEN 20 ELSE 10 + c)
    IN 10 * p - 5 <= tenths /\ tenths < 10 * p + 5

\* C3: a PERFECT, GREAT or GOOD judgement met with combo c adds exactly
\* round(b * min(2.0, 1.0 + 0.1 * c)) to the score, b being the base points of
\* its tier and c the combo before the increment; a MISS adds nothing.
C3_ScoreTransition ==
    Scored =>
        /\ AppliedPopup.type \in NonMiss =>
               /\ IsRoundedPoints(probe.out.score - probe.st.score,
                                  BasePointsOf(AppliedPopup.type), probe.st.combo)
               /\ AppliedPopup.points = probe.out.score - probe.st.score
        /\ AppliedPopup.type = "MISS" => probe.out.score = probe.st.score
        /\ AppliedPopup.type \in NonMiss \cup {"MISS"}

\* GREAT met with combo 9: 75 * 1.9 = 142.5 gives 143 (with combo 10 it would
\* be 150).
C3_Witness ==
    /\ Scored
    /\ probe.st.combo = 9
    /\ AppliedPopup.type = "GREAT"
    /\ probe.out.score = probe.st.score + 143

\* The least |cents| of a non-empty list of samples against the note's target.
MinAbsCents(samples, word) ==
    LET devs == {Abs(samples[i] - 100 * word.midi) : i \in DOMAIN samples}
    IN CHOOSE d \in devs : \A e \in devs : d <= e

TierOfCents(d) ==
    IF d < 10 THEN "PERFECT" ELSE IF d < 25 THEN "GREAT"
    ELSE IF d < 50 THEN "GOOD" ELSE "MISS"

\* C4: a note finalised with at least one sample and the microphone on gets the
\* tier of the least absolute deviation among all its samples: below 10 cents
\* PERFECT/100, below 25 GREAT/75, below 50 GOOD/50, else MISS/0; samples of 0,
\* +5 and -4 cents on MIDI 69 at combo 0 give PERFECT, 100 points and combo 1.
C4_TierByMinCents ==
    (Scored /\ probe.mic /\ MapHas(probe.st.pitchSamples, Key(probe.word))) =>
        LET samples == probe.st.pitchSamples[Key(probe.word)]
            tier == TierOfCents(MinAbsCents(samples, probe.word))
        IN /\ probe.out.scoredResults[Key(probe.word)].result = tier
           /\ probe.out.judged[1].basePoints = BasePointsOf(tier)
           /\ AppliedPopup.type = tier
           /\ (samples = <<6900, 6905, 6896>> /\ probe.st.combo = 0) =>
                  /\ tier = "PERFECT"
                  /\ probe.out.score = probe.st.score + 100
                  /\ probe.out.combo = 1

\* The best sample is neither the first (50 cents, MISS) nor the last (49
\* cents, GOOD): 5 cents, PERFECT.
C4_Witness ==
    /\ Scored /\ probe.mic
    /\ Pending(probe.st.pitchSamples, Key(probe.word)) = <<6950, 6905, 6851>>
    /\ probe.out.scoredResults[Key(probe.word)].result = "PERFECT"
    /\ probe.out.score = probe.st.score + 100
    /\ probe.out.combo = 1

\* The step enables or disables the microphone, or starts, completes or
\* abandons its acquisition.
MicStep ==
    \/ isMicOn' # isMicOn
    \/ analyser' # analyser
    \/ mediaStream' # mediaStream
    \/ pendingStarts' # pendingStarts

\* C11: a step that enables or disables the microphone removes and changes no
\* scoring record and leaves score and combo as they were.
C11_MicKeepsRecords ==
    [][MicStep =>
          /\ scoredResults' = scoredResults
          /\ score' = score
          /\ combo' = combo]_vars

\* The microphone was switched off and on again (no analyser yet, a start is
\* pending) after a PERFECT was recorded, and record, score and combo stand.
C11_Witness ==
    /\ isMicOn /\ ~analyser /\ pendingStarts = 1
    /\ MapHas(scoredResults, <<0, 0>>)
    /\ scoredResults[<<0, 0>>].result = "PERFECT"
    /\ score = 100 /\ combo = 1

\* C12: right after a tick at time now the pitch trail holds no entry with
\* now - entry.time above 4.0 s (8 half seconds), whatever seeks, pauses and
\* microphone switches came before.
C12_TrailWindow ==
    [][TickStep =>
          \A i \in DOMAIN userPitchTrail' :
              currentTime - userPitchTrail'[i].time <= 8]_vars

\* A tick has run at the current position, exactly 4.0 s after the entry that
\* the trail still holds.
C12_Witness ==
    /\ currentSong = SongTrail
    /\ lastTime = currentTime
    /\ Len(userPitchTrail) = 1
    /\ currentTime - userPitchTrail[1].time = 8

\* C13: the multiplier min(2.0, 1.0 + 0.1 * combo), in tenths, does not
\* decrease when the combo grows and is exactly 2.0 from combo 10 on, so the
\* points awarded never exceed twice the base points.
C13_MultiplierCapped ==
    (probe.fn = "mult" /\ probe.done) =>
        /\ probe.out.lo <= probe.out.hi
        /\ probe.hi >= 10 => probe.out.hi = 20
        /\ probe.hi < 10 => probe.out.hi = 10 + probe.hi
        /\ probe.out.points <= 2 * probe.basePoints

\* Combos 9 and 12: the multiplier goes from 1.9 to the cap 2.0, and a GREAT
\* at combo 12 earns 150 points.
C13_Witness ==
    /\ probe.fn = "mult" /\ probe.done
    /\ probe.lo = 9 /\ probe.hi = 12 /\ probe.basePoints = 75
    /\ probe.out = [lo |-> 19, hi |-> 20, points |-> 150]

\* The cases of SpecIndexer after findCurrentLyricIndex was applied.
Indexed == probe.fn = "findCurrentLyricIndex" /\ probe.done

\* C14: on a timeline of ordered, non-overlapping lines the indexer returns
\* none (-1) for an empty timeline; 0 before the first line's start; i inside
\* [start_i, end_i]; in the gap after line i, i up to end_i + 0.5 s, then i + 1
\* when the gap is at most 3.0 s and none otherwise; after the final line its
\* index up to end + 2.0 s and none afterwards.  Indices count from 0.
C14_IndexerCases ==
    Indexed =>
        LET ls == probe.lyrics
            t == probe.time
            n == Len(ls)
        IN /\ n = 0 => probe.out = -1
           /\ (n > 0 /\ t < ls[1].startTime) => probe.out = 0
           /\ \A i \in 1..n :
                 /\ (ls[i].startTime <= t /\ t <= ls[i].endTime) => probe.out = i - 1
                 /\ (i < n /\ ls[i].endTime < t /\ t < ls[i + 1].startTime) =>
                        probe.out = IF t <= ls[i].endTime + 1 THEN i - 1
                                    ELSE IF ls[i + 1].startTime - ls[i].endTime <= 6 THEN i
                                    ELSE -1
                 /\ (i = n /\ ls[i].endTime < t) =>
                        probe.out = IF t <= ls[i].endTime + 4 THEN i - 1 ELSE -1

\* Two lines 3.5 s apart, and a time in the gap past the 0.5 s of the first
\* line: no line is active.
C14_Witness ==
    /\ Indexed
    /\ Len(probe.lyrics) = 2
    /\ probe.lyrics[2].startTime - probe.lyrics[1].endTime = 7
    /\ probe.time = probe.lyrics[1].endTime + 2
    /\ probe.out = -1

\* C15: for line A [0, 5] and line B [8, 12] the indexer returns A's index at
\* t = 6.5 s and B's index at t = 7.0 s.
C15_GapScenario ==
    (Indexed /\ probe.lyrics = LinesAB) =>
        /\ probe.time = 13 => probe.out = 0
        /\ probe.time = 14 => probe.out = 1

\* C15, amended: for line A [0, 5] and line B [8, 12] the indexer returns A's
\* index at t = 5.5 s, the end of the 0.5 s after A, and B's index at
\* t = 6.0 s, t = 6.5 s and t = 7.0 s.
C15_GapScenarioAmended ==
    (Indexed /\ probe.lyrics = LinesAB) =>
        /\ probe.time = 11 => probe.out = 0
        /\ probe.time \in {12, 13, 14} => probe.out = 1

\* The indexer was asked at t = 6.5 s and announced line B.
C15_Witness ==
    /\ Indexed
    /\ probe.lyrics = LinesAB
    /\ probe.time = 13
    /\ probe.out = 1

\* A note that ends no later than it starts, or whose midi is not finite.
Malformed(word) == word.endTime <= word.startTime \/ word.midiKind # "finite"

\* C16: a malformed note (endTime <= startTime, or a midi that is NaN or
\* Infinity) never has a scoring record and never produces a judgement, so it
\* never changes score or combo.
C16_MalformedExcluded ==
    \A i \in DOMAIN words :
        Malformed(words[i]) =>
            /\ ~MapHas(scoredResults, Key(words[i]))
            /\ \A j \in DOMAIN judged : judged[j].key # Key(words[i])

\* C17: until a restart every scoring record keeps its tier and its time; a
\* tick, whether it revisits the window of a scored note or lies past it,
\* makes no judgement of a note that has a record, and a tick that makes no
\* judgement leaves score and combo as they were.
C17_RecordsStable ==
    [][~handleRestart =>
          /\ \A k \in DOMAIN scoredResults :
                MapHas(scoredResults', k) /\ scoredResults'[k] = scoredResults[k]
          /\ TickStep =>
                /\ \A j \in DOMAIN judged' : ~MapHas(scoredResults, judged'[j].key)
                /\ judged' = <<>> => (score' = score /\ combo' = combo)]_vars

\* The first note was scored PERFECT at the second position; playback went
\* back to the start, where a tick sampled its window again, and on to the
\* last position, where a tick found it past its end once more.
C17_Witness ==
    /\ MapHas(scoredResults, <<0, 0>>)
    /\ scoredResults[<<0, 0>>] = [result |-> "PERFECT", scoredAt |-> 2 * Step]
    /\ MapHas(pitchSamples, <<0, 0>>)
    /\ lastTime = 3 * Step /\ currentTime = lastTime
    /\ score = 100

\* C18: a change of the song clears score, combo, the scoring records, the
\* pending sample lists and the pitch trail, so that no record of the
\* previous song stands for a note of the new one.
C18_SongChangeClears ==
    [][currentSong' # currentSong =>
          /\ score' = 0 /\ combo' = 0
          /\ DOMAIN scoredResults' = {}
          /\ DOMAIN pitchSamples' = {}
          /\ userPitchTrail' = <<>>]_vars

\* The cases of SpecEstimator after autoCorrelate was applied.
Estimated == probe.fn = "autoCorrelate" /\ probe.done

\* The mean of the squares of a non-empty buffer is below 0.01 * 0.01, which
\* is 4 units.
RmsBelowGate(buffer) ==
    LET RECURSIVE Sq(_)
        Sq(n) == IF n = 0 THEN 0 ELSE buffer[n] * buffer[n] + Sq(n - 1)
    IN Len(buffer) > 0 /\ Sq(Len(buffer)) < 4 * Len(buffer)

\* C19: for every buffer with samples that is all zeros or whose rms is below
\* 0.01 the estimator returns the no-pitch value -1, which is not positive, so
\* the tick sets no latest pitch and pushes no trail entry.
C19_SilenceIsNoPitch ==
    (Estimated /\ RmsBelowGate(probe.buffer)) =>
        /\ probe.out.frequency = [num |-> -1, den |-> 1]
        /\ ~probe.out.pushed

\* A buffer of the analyser's length, not all zeros, with rms 0.0025.
C19_Witness ==
    /\ Estimated
    /\ probe.buffer = <<0, 1, 0, 0>>
    /\ Len(probe.buffer) = fftSize
    /\ probe.out.frequency.num = -1
    /\ ~probe.out.pushed

C21_SineWithinOnePercent ==
    (/\ Estimated
     /\ 80 * Len(SineTable) <= probe.sampleRate * probe.step
     /\ probe.sampleRate * probe.step <= 1000 * Len(SineTable)) =>
        LET lag == probe.out.frequency.den
        IN /\ probe.out.frequency.num = probe.sampleRate
           /\ lag > 0
           /\ 100 * Abs(Len(SineTable) - probe.step * lag) <= probe.step * lag

\* C22: a note without a record is judged by the first tick whose time
\* exceeds its end time and by no earlier tick: after a tick at time t every
\* note with endTime < t has a record, made by this tick with time t if it had
\* none; a note with endTime >= t gets no record from this tick; and every
\* record's time exceeds the end time of its note.
C22_JudgedWhenWindowCloses ==
    [][TickStep =>
          \A i \in DOMAIN words :
              LET k == Key(words[i])
                  closed == words[i].endTime < currentTime
              IN /\ closed => MapHas(scoredResults', k)
                 /\ (closed /\ ~MapHas(scoredResults, k)) =>
                        /\ scoredResults'[k].scoredAt = currentTime
                        /\ \E j \in DOMAIN judged' :
                              judged'[j].key = k /\ judged'[j].time = currentTime
                 /\ ~closed => (MapHas(scoredResults', k) <=> MapHas(scoredResults, k))
                 /\ MapHas(scoredResults', k) =>
                        scoredResults'[k].scoredAt > words[i].endTime]_vars

\* The first note was judged at the position after its end and the second,
\* which ticks had sampled twice up to its end time without judging it, at
\* the position after its own.
C22_Witness ==
    /\ MapHas(scoredResults, <<0, 0>>) /\ MapHas(scoredResults, <<0, 1>>)
    /\ scoredResults[<<0, 0>>].scoredAt = 2 * Step
    /\ scoredResults[<<0, 1>>].scoredAt = 3 * Step
    /\ Len(judged) = 1 /\ judged[1].key = <<0, 1>>
    /\ Len(Pending(pitchSamples, <<0, 1>>)) = 0
    /\ judged[1].samples = <<6900, 6900>>

\* C23: no note that has a scoring record has a pending sample list: the list
\* is dropped at scoring and samples of a later pass through the window of a
\* scored note are not kept.
C23_NoPendingForScored ==
    \A k \in DOMAIN scoredResults : ~MapHas(pitchSamples, k)

\* C24: a tick without a pitch (no analysis ran, or the estimator returned no
\* pitch) at which no note without a record has its end time behind it leaves
\* score, combo and the scoring records unchanged; and whatever a tick without
\* a pitch judges is a note whose end time lies before the tick's time.
C24_NoPitchTickJudgesNoOpenNote ==
    [][\A est \in Estimates :
          (Tick(est) /\ ~(isMicOn /\ analyser /\ est > 0)) =>
              /\ (\A i \in DOMAIN words :
                     ~(words[i].endTime < currentTime /\ ~MapHas(scoredResults, Key(words[i])))) =>
                     /\ score' = score
                     /\ combo' = combo
                     /\ scoredResults' = scoredResults
              /\ \A j \in DOMAIN judged' :
                     \E i \in DOMAIN words :
                         Key(words[i]) = judged'[j].key /\ words[i].endTime < currentTime]_vars

\* The first note was judged PERFECT at the second note's end time, where the
\* second note got its one sample; a later tick at the second note's start
\* time, made with the microphone off, left the second note unjudged and the
\* combo at 1.
C24_Witness ==
    /\ lastTime = Step /\ currentTime = Step
    /\ score = 100 /\ combo = 1
    /\ MapHas(scoredResults, <<0, 0>>)
    /\ scoredResults[<<0, 0>>].result = "PERFECT"
    /\ ~MapHas(scoredResults, <<0, 1>>)
    /\ Pending(pitchSamples, <<0, 1>>) = <<6900>>
    /\ ~MapHas(pitchSamples, <<0, 0>>)

\* C25: score and combo are never negative; the score does not decrease
\* except by a restart, which sets it to 0, and it changes otherwise only in
\* a tick that judges a note.
C25_ScoreMonotone ==
    [][/\ score >= 0 /\ combo >= 0
       /\ score' >= 0 /\ combo' >= 0
       /\ score' < score => (handleRestart /\ score' = 0)
       /\ score' > score => (TickStep /\ judged' # <<>>)]_vars

\* Both notes were judged PERFECT: the score went 0, 100, 210.
C25_Witness ==
    /\ score = 210 /\ combo = 2
    /\ DOMAIN scoredResults = {<<0, 0>>, <<0, 1>>}
    /\ scoredResults[<<0, 1>>].scoredAt = 3 * Step

\* C26: a tick emits one judgement event for each note it scores and none
\* otherwise; the event (the score popup and the judgement popup made with the
\* same id) carries the tier and the points applied to the score; the events
\* emitted since the last restart are as many as the scoring records.
C26_OneEventPerScoring ==
    [][/\ TickStep =>
            LET n == Len(judged')
                m == Len(judgementPopups')
            IN /\ n = Cardinality(DOMAIN scoredResults') - Cardinality(DOMAIN scoredResults)
               /\ Len(scorePopups') = Len(scorePopups) + n
               /\ m >= n
               /\ m - n <= Len(judgementPopups)
               /\ \A j \in 1..n :
                    /\ scorePopups'[Len(scorePopups) + j]
                          = [type |-> judged'[j].type,
                             points |-> judged'[j].scoreAfter - judged'[j].scoreBefore]
                    /\ judgementPopups'[m - n + j]
                          = [text |-> judged'[j].type, time |-> judged'[j].time]
       /\ Len(scorePopups') = Cardinality(DOMAIN scoredResults')]_vars

\* C27: the entries of the pitch trail are in the order of their times, the
\* oldest first, also after a backward seek followed by new pitch samples.
C27_TrailOrdered ==
    \A i \in DOMAIN userPitchTrail : \A j \in DOMAIN userPitchTrail :
        i < j => userPitchTrail[i].time <= userPitchTrail[j].time

\* C28: after a restart, a frequency is appended to a pending sample list
\* only when a pitch has been estimated since that restart.
C28_NothingFromBeforeRestart ==
    [][\A est \in Estimates : (Tick(est) /\ ~heard') => NothingAppended]_vars

\* What the engine has computed and what the next tick reads of the inputs
\* given so far: the playback time, the microphone switch and the last pitch
\* sample, then the pitch trail, the records, the pending sample lists, the
\* score and the combo.
EngineState ==
    [time |-> currentTime, mic |-> isMicOn, pitch |-> latestPitch.frequency,
     trail |-> userPitchTrail, records |-> scoredResults, pending |-> pitchSamples,
     score |-> score, combo |-> combo]

\* The engine state after one input, as a function of the engine state x
\* before it: a tick with the pitch sample of its audio window (NoPitch when
\* there is none), or a restart.
Replayed(x, input) ==
    IF input.op = "restart"
    THEN [x EXCEPT !.time = 0, !.trail = <<>>, !.records = EmptyMap,
                   !.pending = EmptyMap, !.score = 0, !.combo = 0]
    ELSE LET sampled == input.sample > 0
             pitch == IF sampled THEN input.sample ELSE x.pitch
             pushed == IF sampled
                       THEN Append(x.trail, [time |-> x.time, midi |-> quantizedMidi(input.sample)])
                       ELSE x.trail
             st == ScoreWords([scoredResults |-> x.records,
                               pitchSamples |-> Collect(x.pending, words, x.time, x.mic, pitch),
                               score |-> x.score, combo |-> x.combo, scorePopups |-> <<>>,
                               judgementPopups |-> <<>>, judged |-> <<>>,
                               scoreCalls |-> EmptyMap],
                              words, x.time, x.mic)
         IN [x EXCEPT !.pitch = pitch,
                      !.trail = FilterSeq(pushed, x.time, 2 * USER_TRAIL_SECONDS),
                      !.records = st.scoredResults, !.pending = st.pitchSamples,
                      !.score = st.score, !.combo = st.combo]

C30_LagAtLeastOne ==
    Estimated =>
        /\ \/ probe.out.frequency = [num |-> NoPitch, den |-> 1]
           \/ /\ probe.out.frequency.num = probe.sampleRate
              /\ probe.out.frequency.den >= 1
        /\ probe.out.pushed => probe.out.frequency.den >= 1

\* The positions, counted from 0, of the samples whose absolute amplitude
\* exceeds the threshold.
LoudPositions(buffer) == {i \in 0..(Len(buffer) - 1) : Abs(buffer[i + 1]) > threshold}

\* C31: for a buffer that passes the rms gate and has a sample above the
\* threshold, the region the autocorrelation is computed on starts at the
\* first such sample and ends at the last one (taken in or left out).
C31_TrimmedToLoudRegion ==
    (Estimated /\ ~Silent(probe.buffer) /\ LoudPositions(probe.buffer) # {}) =>
        LET loud == LoudPositions(probe.buffer)
            first == CHOOSE i \in loud : \A k \in loud : i <= k
            last == CHOOSE i \in loud : \A k \in loud : k <= i
        IN /\ TrimStart(probe.buffer) = first
           /\ TrimEnd(probe.buffer) \in {last, last + 1}

----------------------------------------------------------------------------
(* SpecLive: the component on SongLive with the frame callback of lines     *)
(* 713-724, which requests the next frame at the end of every frame: a tick *)
(* that can change the state is not postponed for ever.                     *)

InitLive ==
    /\ currentSong = SongLive
    /\ MountedInit
    /\ probe = NoProbe

SpecLive == InitLive /\ [][Next]_vars /\ WF_vars(TickStep)

\* C32: under fair ticking, every note whose end the playback time passes
\* for good gets a scoring record, whatever the microphone does and whatever
\* seeks, pauses and restarts came before.
C32_EventuallyScored ==
    \A i \in DOMAIN WordsOf(SongLive) :
        LET word == WordsOf(SongLive)[i]
        IN <>[](currentTime > word.endTime) => <>MapHas(scoredResults, Key(word))

\* Both notes have their records, made at the end of the audio, the first
\* from the samples of a tick before a pause with the microphone off.
C32_Witness ==
    /\ currentSong = SongLive
    /\ DOMAIN scoredResults = {<<0, 0>>, <<0, 1>>}
    /\ scoredResults[<<0, 0>>] = [result |-> "PERFECT", scoredAt |-> Step]
    /\ scoredResults[<<0, 1>>] = [result |-> "MISS", scoredAt |-> Step]
    /\ currentTime = Step
    /\ ~isMicOn

\* The sum of the points of the entries of popups that are not MISS.
RECURSIVE PointsOf(_)
PointsOf(popups) ==
    IF popups = <<>> THEN 0
    ELSE (IF Head(popups).type # "MISS" THEN Head(popups).points ELSE 0) + PointsOf(Tail(popups))

\* The number of entries of popups after its last MISS.
RECURSIVE StreakOf(_)
StreakOf(popups) ==
    IF popups = <<>> \/ popups[Len(popups)].type = "MISS" THEN 0
    ELSE 1 + StreakOf(SubSeq(popups, 1, Len(popups) - 1))

\* C33: the score is the sum of the points of the judgements applied since
\* the last restart that are not MISS, and the combo is the number of
\* judgements applied since the latest MISS or restart.  The score popups,
\* emptied by the restart, hold the judgements applied since then (up to 4).
C33_ScoreIsSumOfPoints ==
    /\ Len(scorePopups) = Cardinality(DOMAIN scoreCalls)
    /\ score = PointsOf(scorePopups)
    /\ combo = StreakOf(scorePopups)

\* A miss, then a hit.
C33_Witness ==
    /\ scorePopups = <<[type |-> "MISS", points |-> 0], [type |-> "PERFECT", points |-> 100]>>
    /\ score = 100 /\ combo = 1

\* C34: a tick judges all the notes that have ended before its time and have
\* no record, in timeline order (line index, then position), each starting
\* from the combo the one before it left; a note in whose window no tick ran
\* with the microphone on since the restart is judged MISS with combo 0.
C34_ClosedTogetherInOrder ==
    [][TickStep =>
          LET due == {i \in DOMAIN words :
                         /\ words[i].midiKind # "undefined"
                         /\ currentTime > words[i].endTime
                         /\ ~MapHas(scoredResults, Key(words[i]))}
          IN /\ Len(judged') = Cardinality(due)
             /\ \A i \in due : \E j \in DOMAIN judged' : judged'[j].key = Key(words[i])
             /\ \A j \in DOMAIN judged' : \A k \in DOMAIN judged' :
                    j < k => \/ judged'[j].key[1] < judged'[k].key[1]
                             \/ /\ judged'[j].key[1] = judged'[k].key[1]
                                /\ judged'[j].key[2] < judged'[k].key[2]
             /\ \A j \in DOMAIN judged' :
                    /\ judged'[j].comboBefore = IF j = 1 THEN combo ELSE judged'[j - 1].comboAfter
                    /\ judged'[j].key \notin micInWindow =>
                           /\ judged'[j].result = "MISS" /\ judged'[j].type = "MISS"
                           /\ judged'[j].points = 0 /\ judged'[j].comboAfter = 0]_vars

\* After a seek from the first note's window past the end of both notes one
\* tick judged the first note from its samples and the second, whose window
\* was skipped, as a miss.
C34_Witness ==
    /\ Len(judged) = 2
    /\ judged[1].key = <<0, 0>> /\ judged[1].type = "PERFECT" /\ judged[1].comboAfter = 1
    /\ judged[2].key = <<0, 1>> /\ judged[2].result = "MISS" /\ judged[2].samples = <<>>
    /\ judged[2].comboBefore = 1 /\ judged[2].comboAfter = 0
    /\ judged[1].time = 3 * Step /\ judged[2].time = 3 * Step
    /\ micInWindow = {<<0, 0>>}

\* C35: after every tick the active line index is the indexer's result for
\* the playback time, also on the first tick after a restart and while the
\* playback is paused.
C35_IndexFollowsTime ==
    [][TickStep =>
          currentLyricIndex' = findCurrentLyricIndex(currentSong.lyrics, currentTime)]_vars

\* C36: while the microphone flag is off, nothing but the user's toggle
\* turns it on or installs an analyser, whenever a pending start completes,
\* and a tick made while it is off collects no sample.
C36_DisableNotOverridden ==
    [][/\ (~isMicOn /\ ~ToggleMic) => (~isMicOn' /\ ~analyser')
       /\ (~isMicOn /\ TickStep) => NothingAppended]_vars

\* C37: a microphone start completes only while no stream is stored, so that
\* no stream that was acquired and not stopped loses its only reference to
\* a second one: at most one stream is live and each can still be stopped.
C37_NoStreamOverwritten ==
    [][MicGranted => ~mediaStream]_vars

----------------------------------------------------------------------------
(* SpecRaf: the scheduling of the update loop.  The probe holds the         *)
(* component's scheduling state: audioLoaded, the rendered loop callback    *)
(* (a version number, a new one for every recreation by useCallback),      *)
(* rafRef (0 is null), and the browser's set of requested animation frames, *)
(* each with the loop callback that was passed to requestAnimationFrame.    *)
(* React commits a render and flushes its passive effects in separate       *)
(* tasks, so a frame can fire between a render and its effect.              *)

MaxFrames == 5
MaxLoops == 3

Requested(id, callback) == [id |-> id, loop |-> callback]

cancelAnimationFrame(frames, id) == {f \in frames : f.id # id}

RafUnchanged ==
    UNCHANGED <<currentSong, currentTime, lastTime, currentLyricIndex, isMicOn, analyser,
                mediaStream, pendingStarts, latestPitch, userPitchTrail, scoredResults,
                pitchSamples, score, combo, scorePopups, judgementPopups, judged,
                scoreCalls, micInWindow, heard>>

InitRaf ==
    /\ EngineInit
    /\ probe = [fn |-> "raf", mounted |-> TRUE, audioLoaded |-> FALSE, loop |-> 1,
                stale |-> FALSE, effectPending |-> FALSE, cleanup |-> FALSE,
                unmountPending |-> FALSE, rafRef |-> 0, frames |-> {}, nextId |-> 1,
                ran |-> 0]

\* <audio> fires canplay: setAudioLoaded(true), and the render that follows
\* leaves the effect with a changed dependency.
handleCanPlay ==
    /\ probe.fn = "raf" /\ probe.mounted /\ ~probe.audioLoaded
    /\ probe' = [probe EXCEPT !.audioLoaded = TRUE, !.effectPending = TRUE]
    /\ RafUnchanged

\* The timeline of the song changes: words, a dependency of loop, is new.
WordsChanged ==
    /\ probe.fn = "raf" /\ probe.mounted /\ ~probe.stale
    /\ probe' = [probe EXCEPT !.stale = TRUE]
    /\ RafUnchanged

\* A render with a changed dependency of loop: useCallback returns a new
\* callback and the scheduling effect is due.
Render ==
    /\ probe.fn = "raf" /\ probe.mounted /\ probe.stale
    /\ probe.loop < MaxLoops
    /\ probe' = [probe EXCEPT !.loop = @ + 1, !.stale = FALSE, !.effectPending = TRUE]
    /\ RafUnchanged

\* The scheduling effect without the cancel of its cleanup.
LoopEffect_CleanupForgets ==
    /\ probe.fn = "raf" /\ probe.mounted /\ probe.effectPending
    /\ LET ref1 == IF probe.cleanup THEN 0 ELSE probe.rafRef
       IN IF ~probe.audioLoaded
          THEN probe' = [probe EXCEPT !.effectPending = FALSE, !.cleanup = FALSE,
                                      !.rafRef = ref1]
          ELSE /\ probe.nextId <= MaxFrames
               /\ probe' = [probe EXCEPT
                      !.effectPending = FALSE, !.cleanup = TRUE,
                      !.frames = cancelAnimationFrame(probe.frames, ref1)
                                     \cup {Requested(probe.nextId, probe.loop)},
                      !.rafRef = probe.nextId, !.nextId = @ + 1]
    /\ RafUnchanged

\* The scheduling effect is flushed: the cleanup of its last run, if that
\* run returned one, then the effect body with the rendered loop.
LoopEffect ==
    /\ probe.fn = "raf" /\ probe.mounted /\ probe.effectPending
    /\ LET frames1 == IF probe.cleanup
                      THEN cancelAnimationFrame(probe.frames, probe.rafRef)
                      ELSE probe.frames
           ref1 == IF probe.cleanup THEN 0 ELSE probe.rafRef
       IN IF ~probe.audioLoaded
          THEN probe' = [probe EXCEPT !.effectPending = FALSE, !.cleanup = FALSE,
                                      !.frames = frames1, !.rafRef = ref1]
          ELSE /\ probe.nextId <= MaxFrames
               /\ probe' = [probe EXCEPT
                      !.effectPending = FALSE, !.cleanup = TRUE,
                      !.frames = cancelAnimationFrame(frames1, ref1)
                                     \cup {Requested(probe.nextId, probe.loop)},
                      !.rafRef = probe.nextId, !.nextId = @ + 1]
    /\ RafUnchanged

\* The browser runs a requested frame: the loop callback it was requested
\* with runs once, may set a new active line index (a state update, dropped
\* once unmounted), and requests the next frame for itself.
Frame ==
    /\ probe.fn = "raf"
    /\ probe.nextId <= MaxFrames
    /\ \E f \in probe.frames, indexChanged \in BOOLEAN :
          probe' = [probe EXCEPT
              !.frames = (probe.frames \ {f}) \cup {Requested(probe.nextId, f.loop)},
              !.rafRef = probe.nextId, !.nextId = @ + 1,
              !.stale = @ \/ (indexChanged /\ probe.mounted),
              !.ran = IF probe.mounted \/ probe.unmountPending THEN @ ELSE @ + 1]
    /\ RafUnchanged

\* The component is removed; its cleanups are flushed later.
Unmount ==
    /\ probe.fn = "raf" /\ probe.mounted
    /\ probe' = [probe EXCEPT !.mounted = FALSE, !.unmountPending = TRUE]
    /\ RafUnchanged

\* The cleanups at unmount, in the order of the effects: the scheduling
\* effect's (cancel and null), then the unmount effect's (cancel).
UnmountCleanup ==
    /\ probe.fn = "raf" /\ probe.unmountPending
    /\ probe' = [probe EXCEPT
           !.unmountPending = FALSE,
           !.frames = cancelAnimationFrame(probe.frames, probe.rafRef),
           !.rafRef = IF probe.cleanup THEN 0 ELSE @]
    /\ RafUnchanged

NextRaf ==
    \/ handleCanPlay
    \/ WordsChanged
    \/ Render
    \/ LoopEffect
    \/ Frame
    \/ Unmount
    \/ UnmountCleanup

SpecRaf == InitRaf /\ [][NextRaf]_vars

\* C38: at most one frame of the update loop is requested at any time and
\* rafRef names it; once the scheduling effect has run for the rendered
\* loop, the requested frame runs that loop and no older one; and after the
\* cleanups of an unmount no frame is requested and no loop has run.
C38_OneFrameScheduled ==
    probe.fn = "raf" =>
        /\ Cardinality(probe.frames) <= 1
        /\ \A f \in probe.frames : f.id = probe.rafRef
        /\ (probe.mounted /\ ~probe.effectPending) =>
               \A f \in probe.frames : f.loop = probe.loop
        /\ (~probe.mounted /\ ~probe.unmountPending) =>
               (probe.frames = {} /\ probe.ran = 0)

\* The loop was recreated twice, each time with a frame of the older loop
\* requested, and the one requested frame runs the newest loop.
C38_Witness ==
    /\ probe.fn = "raf"
    /\ probe.mounted /\ ~probe.effectPending
    /\ probe.loop = 3
    /\ probe.frames = {Requested(probe.rafRef, 3)}
    /\ probe.rafRef >= 4

\* C39: a tick at a playback time that has not changed since the previous
\* tick (playback is paused) lengthens neither the pitch trail nor the
\* pending sample list of any note.
C39_PausedTickGrowsNothing ==
    [][(TickStep /\ heard /\ lastTime = currentTime) =>
          (Len(userPitchTrail') <= Len(userPitchTrail) /\ NothingAppended)]_vars

====
